---- MODULE Spec2Model ----
(***************************************************************************)
(* bookbits: export of Apple Books highlights.  The repository holds the   *)
(* script twice: src/bookbits.py and its earlier form src/main.py.  The    *)
(* variable `variant` says which of the two files is running.              *)
(*                                                                         *)
(* Python values: None is <<>> and a present value x is <<x>> wherever a    *)
(* value is optional (a NULL column, selected_book, a menu choice).  Text  *)
(* (highlight, note, title, file content) is a sequence of characters;     *)
(* identifiers, formats and file names are strings.                        *)
(***************************************************************************)
EXTENDS Naturals, Sequences, FiniteSets, TLC

VARIABLES
    variant,          \* "bookbits" (src/bookbits.py) or "main" (src/main.py)
    library,          \* catalog store: rows of ZBKLIBRARYASSET
    annotation,       \* annotation store: rows of ZAEANNOTATION, in row order
    files,            \* working directory: file name -> content
    pc,               \* position of the running code
    caller,           \* who called export_annotations: "main" or "api"
    book_details,     \* main(): the CatalogIndex
    books,            \* main(): the HighlightedBookSet
    selected_book,    \* main(): optional identifier
    selected_format,  \* main(): format string
    main_choice,      \* main(): last choice of the main menu (optional)
    exported,         \* main(): filename returned by export (optional)
    stdout,           \* last line printed
    asset_id,         \* export_annotations(): argument
    format,           \* export_annotations(): argument
    book_title,       \* export_annotations(): argument (bookbits.py only)
    annotations,      \* export_annotations(): fetched rows
    filename,         \* export_annotations(): local (optional)
    exc,              \* exception in flight or last raised (optional)
    open_conns,       \* store connections that are open
    io                \* I/O performed by the operation in progress

vars == <<variant, library, annotation, files, pc, caller, book_details, books,
          selected_book, selected_format, main_choice, exported, stdout,
          asset_id, format, book_title, annotations, filename, exc,
          open_conns, io>>

mainVars == <<book_details, books, selected_book, selected_format,
              main_choice, exported>>
callVars == <<asset_id, format, book_title, annotations, filename>>
storeVars == <<variant, library, annotation>>

(***************************************************************************)
(* Bounds of the model.                                                    *)
(***************************************************************************)
\* rows of the annotation store in the specifications of main() and of the
\* direct calls
MaxRows == 2
\* size of the annotation store in the specification of the delimited-text
\* export: its rows plus the characters of their highlights and notes
MaxStoreSize == 5

(***************************************************************************)
(* Python values.                                                          *)
(***************************************************************************)
None == <<>>
Some(x) == <<x>>

\* truth value of an optional string identifier: None and "" are falsy
TruthyId(o) == o # None /\ o[1] # ""
\* truth value of an optional text: None and the empty text are falsy
TruthyText(o) == o # None /\ o[1] # <<>>
\* x or default
OrText(o, default) == IF TruthyText(o) THEN o[1] ELSE default

Variants == {"bookbits", "main"}

UnknownTitle == <<"U","n","k","n","o","w","n"," ","T","i","t","l","e">>
UnknownAuthor == <<"U","n","k","n","o","w","n"," ","A","u","t","h","o","r">>

\* str.lower() on the format strings of the model
Lower(f) ==
    CASE f = "CSV" -> "csv"
      [] f = "MD" -> "md"
      [] f = "Markdown" -> "markdown"
      [] OTHER -> f

\* SUPPORTED_FORMATS (bookbits.py), formats (main.py)
SUPPORTED_FORMATS(v) ==
    IF v = "bookbits" THEN <<"csv", "md">> ELSE <<"csv", "markdown">>

Range(s) == {s[i] : i \in DOMAIN s}

\* the sequences over S of length at most n
SeqUpTo(S, n) == UNION {[1..k -> S] : k \in 0..n}

\* the orders in which a query may yield the members of S
Orders(S) == {s \in [1..Cardinality(S) -> S] : Range(s) = S}

(***************************************************************************)
(* The stores and the queries on them.                                     *)
(***************************************************************************)
\* SQL: column != "" (false for NULL and for the empty text)
SqlNotEmpty(t) == t # None /\ t[1] # <<>>

\* get_library_books(): the dict built from the rows of the catalog
LibraryBooks(lib) ==
    [id \in {r.id : r \in lib} |->
        LET r == CHOOSE x \in lib : x.id = id
        IN  <<OrText(r.title, UnknownTitle), OrText(r.author, UnknownAuthor)>>]

\* the query without its condition on the selected text
DistinctAnnotated(rows, ids) ==
    {rows[i].asset : i \in {j \in DOMAIN rows : rows[j].asset \in ids}}

\* SELECT DISTINCT ZANNOTATIONASSETID ... WHERE ZANNOTATIONASSETID IN (ids)
\*   AND ZANNOTATIONSELECTEDTEXT != ""
DistinctHighlighted(rows, ids) ==
    {rows[i].asset : i \in {j \in DOMAIN rows :
        rows[j].asset \in ids /\ SqlNotEmpty(rows[j].text)}}

\* SELECT ZANNOTATIONSELECTEDTEXT, ZANNOTATIONNOTE ... WHERE
\*   ZANNOTATIONASSETID = id AND ZANNOTATIONSELECTEDTEXT != ""
RECURSIVE SelectAnnotations(_, _)
SelectAnnotations(rows, id) ==
    IF rows = <<>> THEN <<>>
    ELSE LET r == Head(rows)
             rest == SelectAnnotations(Tail(rows), id)
         IN  IF r.asset = id /\ SqlNotEmpty(r.text)
             THEN <<[highlight |-> r.text[1], note |-> r.note]>> \o rest
             ELSE rest

(***************************************************************************)
(* Serialization.                                                          *)
(***************************************************************************)
RECURSIVE Concat(_)
Concat(ss) == IF ss = <<>> THEN <<>> ELSE Head(ss) \o Concat(Tail(ss))

\* str.replace("\n", " ")
ReplaceNewlines(t) == [i \in DOMAIN t |-> IF t[i] = "\n" THEN " " ELSE t[i]]

\* csv.writer, delimiter ";", QUOTE_MINIMAL, doublequote, lineterminator "\r\n"
CsvSpecial == {";", "\"", "\r", "\n"}
CsvField(t) ==
    IF \E i \in DOMAIN t : t[i] \in CsvSpecial
    THEN <<"\"">> \o Concat([i \in DOMAIN t |->
                IF t[i] = "\"" THEN <<"\"", "\"">> ELSE <<t[i]>>]) \o <<"\"">>
    ELSE t
CsvRecord(fields) ==
    Concat([i \in DOMAIN fields |->
        IF i = 1 THEN CsvField(fields[i]) ELSE <<";">> \o CsvField(fields[i])])
    \o <<"\r", "\n">>

CsvHeader == << <<"H","i","g","h","l","i","g","h","t">>, <<"N","o","t","e","s">> >>

\* the dict with the newlines of the note kept
CsvRowKeepsNoteNewlines(a) ==
    << ReplaceNewlines(a.highlight),
       IF TruthyText(a.note) THEN a.note[1] ELSE <<>> >>

\* the dict written for one annotation
CsvRow(a) ==
    << ReplaceNewlines(a.highlight),
       IF TruthyText(a.note) THEN ReplaceNewlines(a.note[1]) ELSE <<>> >>

\* writer.writeheader(); writer.writerows(...)
CsvFile(anns) ==
    CsvRecord(CsvHeader) \o Concat([i \in DOMAIN anns |-> CsvRecord(CsvRow(anns[i]))])

\* one annotation of the markdown file
MdBlock(a) ==
    a.highlight \o <<"\n">>
    \o (IF TruthyText(a.note) THEN <<"*">> \o a.note[1] \o <<"*", "\n">> ELSE <<>>)
    \o <<"-", "-", "-", "\n">>

MdHeading(title) ==
    <<"#"," ","H","i","g","h","l","i","g","h","t","s"," ","-"," ">> \o title
    \o <<" ", "\n", "\n">>

\* bookbits.py writes the heading, main.py does not
MdFile(v, title, anns) ==
    (IF v = "bookbits" THEN MdHeading(title) ELSE <<>>)
    \o Concat([i \in DOMAIN anns |-> MdBlock(anns[i])])

\* a file name that carries the book
FilenamePerBook(v, f) == "highlights-" \o asset_id \o "." \o Lower(f)

\* the name of the output file
Filename(v, f) ==
    IF v = "bookbits" THEN "highlights." \o Lower(f)
    ELSE IF Lower(f) = "csv" THEN "highlights.csv" ELSE "highlights.md"

Content(v, f, title, anns) ==
    IF Lower(f) = "csv" THEN CsvFile(anns) ELSE MdFile(v, title, anns)

\* open(name, 'w') ... write: the file is created or truncated, then written
WriteFile(fs, name, content) ==
    [n \in DOMAIN fs \cup {name} |-> IF n = name THEN content ELSE fs[n]]

(***************************************************************************)
(* Store access.  `with sqlite3.connect(path) as conn:` commits or rolls   *)
(* back when the block is left; it does not close the connection, which    *)
(* stays open for as long as the connection object is referenced (the      *)
(* local `conn`, or the frame kept by an exception in flight) and is       *)
(* closed when the frame is released.                                      *)
(***************************************************************************)
DbFaults == {"none", "notfound", "connect", "query"}

Event(op, target, params) == [op |-> op, target |-> target, params |-> params]

\* the locator finds no file: FileNotFoundError from get_db_path (bookbits.py),
\* IndexError from glob.glob(pattern)[0] (main.py)
NotFoundError(v) == IF v = "bookbits" THEN "FileNotFoundError" ELSE "IndexError"

\* one `with sqlite3.connect(...)` block running one query with `params`
\* bound parameters: the exception it leaves with, the connections it
\* opened, the I/O it performed
DbRun(v, db, params, fault) ==
    CASE fault = "notfound" ->
            [exc |-> Some(NotFoundError(v)), opened |-> 0, io |-> <<>>]
      [] fault = "connect" ->
            [exc |-> Some("sqlite3.Error"), opened |-> 0,
             io |-> <<Event("connect", db, 0)>>]
      [] fault = "query" ->
            [exc |-> Some("sqlite3.Error"), opened |-> 1,
             io |-> <<Event("connect", db, 0), Event("execute", db, params)>>]
      [] OTHER ->
            [exc |-> None, opened |-> 1,
             io |-> <<Event("connect", db, 0), Event("execute", db, params)>>]

(***************************************************************************)
(* main(): start-up.                                                       *)
(***************************************************************************)
\* except (FileNotFoundError, sqlite3.Error) around the start-up (bookbits.py);
\* main.py catches nothing
StartupCaught(v, e) == v = "bookbits" /\ e \in {"FileNotFoundError", "sqlite3.Error"}

\* the start-up failed with exception e: report and return, or die
StartupFailed(e) ==
    /\ exc' = Some(e)
    /\ open_conns' = 0
    /\ IF StartupCaught(variant, e)
       THEN pc' = "exit" /\ stdout' = "An error occurred while accessing the Apple Books database."
       ELSE pc' = "crashed" /\ stdout' = stdout

\* book_details = get_library_books()
main_get_library_books ==
    /\ pc = "start"
    /\ \E fault \in DbFaults :
         LET r == DbRun(variant, "library", 0, fault)
         IN  /\ io' = r.io
             /\ IF r.exc = None
                THEN /\ book_details' = LibraryBooks(library)
                     /\ pc' = "reconcile"
                     /\ open_conns' = 0
                     /\ UNCHANGED <<exc, stdout>>
                ELSE /\ StartupFailed(r.exc[1])
                     /\ UNCHANGED book_details
    /\ UNCHANGED <<storeVars, files, caller, books, selected_book, selected_format,
                   main_choice, exported, callVars>>

\* selected_format when the loop starts
DefaultFormat(v) == IF v = "bookbits" THEN "md" ELSE SUPPORTED_FORMATS(v)[1]

\* books = get_library_books_with_highlights(); selected_book = None;
\* selected_format = ...
main_get_library_books_with_highlights ==
    /\ pc = "reconcile"
    /\ \E f1 \in DbFaults, f2 \in DbFaults :
         LET r1 == DbRun(variant, "library", 0, f1)
             book_ids == DOMAIN LibraryBooks(library)
             r2 == DbRun(variant, "annotation", Cardinality(book_ids), f2)
         IN  IF r1.exc # None
             THEN /\ io' = r1.io
                  /\ StartupFailed(r1.exc[1])
                  /\ UNCHANGED <<books, selected_book, selected_format>>
             ELSE /\ io' = r1.io \o r2.io
                  /\ IF r2.exc # None
                     THEN /\ StartupFailed(r2.exc[1])
                          /\ UNCHANGED <<books, selected_book, selected_format>>
                     ELSE /\ books' \in Orders(DistinctHighlighted(annotation, book_ids))
                          /\ selected_book' = None
                          /\ selected_format' = DefaultFormat(variant)
                          /\ pc' = "loop"
                          /\ open_conns' = 0
                          /\ UNCHANGED <<exc, stdout>>
    /\ UNCHANGED <<storeVars, files, caller, book_details, main_choice, exported,
                   callVars>>

(***************************************************************************)
(* main(): the selection loop.                                             *)
(***************************************************************************)
\* main_choice == 0: book_menu.show()
SelectBook ==
    /\ pc = "loop"
    /\ main_choice' = Some(0)
    /\ \E book_choice \in {None} \cup {Some(i) : i \in DOMAIN books} :
         selected_book' = IF book_choice # None THEN Some(books[book_choice[1]])
                          ELSE selected_book
    /\ UNCHANGED <<storeVars, files, pc, caller, book_details, books,
                   selected_format, exported, stdout, callVars, exc, open_conns, io>>

\* main_choice == 1: format_menu.show()
SelectFormat ==
    /\ pc = "loop"
    /\ main_choice' = Some(1)
    /\ \E format_choice \in {None} \cup {Some(i) : i \in DOMAIN SUPPORTED_FORMATS(variant)} :
         selected_format' = IF format_choice # None
                            THEN SUPPORTED_FORMATS(variant)[format_choice[1]]
                            ELSE selected_format
    /\ UNCHANGED <<storeVars, files, pc, caller, book_details, books,
                   selected_book, exported, stdout, callVars, exc, open_conns, io>>

\* where export_annotations starts: bookbits.py validates the format first,
\* main.py queries the annotation store first
EntryPc(v) == IF v = "bookbits" THEN "ex_validate" ELSE "ex_retrieve"

\* export_annotations(a, f, t) is entered
Enter(a, f, t) ==
    /\ asset_id' = a
    /\ format' = f
    /\ book_title' = t
    /\ annotations' = <<>>
    /\ filename' = None
    /\ exc' = None
    /\ io' = <<>>
    /\ pc' = EntryPc(variant)

\* if selected_book and selected_format
MayExport(book, fmt) == TruthyId(book) /\ fmt # ""

\* Export Annotations with the break placed after the if/else
ExportChoiceBreaks ==
    /\ pc = "loop"
    /\ main_choice' = Some(2)
    /\ IF MayExport(selected_book, selected_format)
       THEN /\ Enter(selected_book[1], selected_format, book_details[selected_book[1]][1])
            /\ UNCHANGED stdout
       ELSE /\ stdout' = "Please select a book before exporting!"
            /\ pc' = "exit"
            /\ UNCHANGED <<callVars, exc, io>>
    /\ UNCHANGED <<storeVars, files, caller, book_details, books, selected_book,
                   selected_format, exported, open_conns>>

\* main_choice == 2: Export Annotations
ExportChoice ==
    /\ pc = "loop"
    /\ main_choice' = Some(2)
    /\ IF MayExport(selected_book, selected_format)
       THEN /\ Enter(selected_book[1], selected_format, book_details[selected_book[1]][1])
            /\ UNCHANGED stdout
       ELSE /\ stdout' = (IF variant = "bookbits"
                         THEN "Please select a book before exporting!"
                         ELSE "Please select a book and format before exporting!")
            /\ UNCHANGED <<pc, callVars, exc, io>>
    /\ UNCHANGED <<storeVars, files, caller, book_details, books, selected_book,
                   selected_format, exported, open_conns>>

\* main_choice == 3 or main_choice is None: Quit
Quit ==
    /\ pc = "loop"
    /\ main_choice' \in {Some(3), None}
    /\ pc' = "exit"
    /\ stdout' = (IF variant = "bookbits" THEN "Exiting..." ELSE stdout)
    /\ UNCHANGED <<storeVars, files, caller, book_details, books, selected_book,
                   selected_format, exported, callVars, exc, open_conns, io>>

(***************************************************************************)
(* export_annotations(asset_id, format, book_title).                       *)
(***************************************************************************)
\* if format.lower() not in SUPPORTED_FORMATS: raise ValueError
ValidFormat(v, f) == Lower(f) \in Range(SUPPORTED_FORMATS(v))

\* where the code goes after the format check, and after the query
AfterValidate(v) == IF v = "bookbits" THEN "ex_retrieve" ELSE "ex_write"
AfterRetrieve(v) == IF v = "bookbits" THEN "ex_write" ELSE "ex_validate"

ExValidate ==
    /\ pc = "ex_validate"
    /\ IF ValidFormat(variant, format)
       THEN pc' = AfterValidate(variant) /\ UNCHANGED exc
       ELSE pc' = "raised" /\ exc' = Some("ValueError")
    /\ UNCHANGED <<storeVars, files, caller, mainVars, stdout, callVars,
                   open_conns, io>>

\* the Retriever: the annotations of asset_id
ExRetrieve ==
    /\ pc = "ex_retrieve"
    /\ \E fault \in DbFaults :
         LET r == DbRun(variant, "annotation", 1, fault)
         IN  /\ io' = io \o r.io
             /\ open_conns' = open_conns + r.opened
             /\ IF r.exc = None
                THEN /\ annotations' = SelectAnnotations(annotation, asset_id)
                     /\ pc' = AfterRetrieve(variant)
                     /\ UNCHANGED exc
                ELSE /\ exc' = r.exc
                     /\ pc' = "raised"
                     /\ UNCHANGED annotations
    /\ UNCHANGED <<storeVars, files, caller, mainVars, stdout, asset_id, format,
                   book_title, filename>>

\* the file cannot be opened, or the buffered text cannot be written out when
\* the file is closed
WriteFaults == {"none", "open", "flush"}

\* the Exporter: open(filename, 'w') and the writes
ExWrite ==
    /\ pc = "ex_write"
    /\ LET name == Filename(variant, format)
       IN  /\ filename' = Some(name)
           /\ io' = io \o <<Event("open", name, 0)>>
           /\ \E fault \in WriteFaults :
                CASE fault = "open" ->
                        /\ exc' = Some("IOError")
                        /\ pc' = "raised"
                        /\ UNCHANGED files
                  [] fault = "flush" ->
                        /\ exc' = Some("IOError")
                        /\ pc' = "raised"
                        /\ files' = WriteFile(files, name, <<>>)
                  [] OTHER ->
                        /\ files' = WriteFile(files, name,
                                        Content(variant, format, book_title, annotations))
                        /\ pc' = "ex_return"
                        /\ UNCHANGED exc
    /\ UNCHANGED <<storeVars, caller, mainVars, stdout, asset_id, format,
                   book_title, annotations, open_conns>>

(***************************************************************************)
(* main(): the return of export_annotations, and its failure.              *)
(***************************************************************************)
\* the frame of export_annotations is released
Leave ==
    /\ asset_id' = ""
    /\ format' = ""
    /\ book_title' = <<>>
    /\ annotations' = <<>>
    /\ filename' = None
    /\ io' = <<>>
    /\ open_conns' = 0

\* filename = export_annotations(...); print; break
Exported ==
    /\ pc = "ex_return"
    /\ caller = "main"
    /\ exported' = filename
    /\ stdout' = "Annotations exported to " \o filename[1]
    /\ pc' = "exit"
    /\ Leave
    /\ UNCHANGED <<storeVars, files, caller, book_details, books, selected_book,
                   selected_format, main_choice, exc>>

\* except (ValueError, sqlite3.Error, IOError) in the loop of bookbits.py
\* (IOError is OSError, of which FileNotFoundError is a subclass); main.py has
\* no try around the call
ExportCaught(v, e) ==
    v = "bookbits" /\ e \in {"ValueError", "sqlite3.Error", "IOError", "FileNotFoundError"}

\* the exception leaves export_annotations: the loop reports it and goes on,
\* or the process dies of it
ExportFailed ==
    /\ pc = "raised"
    /\ caller = "main"
    /\ IF ExportCaught(variant, exc[1])
       THEN /\ pc' = "loop"
            /\ stdout' = "Error exporting annotations"
            /\ exc' = None
            /\ Leave
       ELSE /\ pc' = "crashed"
            /\ open_conns' = 0
            /\ UNCHANGED <<stdout, exc, callVars, io>>
    /\ UNCHANGED <<storeVars, files, caller, mainVars>>

(***************************************************************************)
(* export_annotations called directly (the entry point the core exposes).  *)
(***************************************************************************)
ApiAssets == {"b1", "b2"}
ApiFormats == {"csv", "md", "markdown", "CSV", "pdf"}
ApiTitles == {<<"T">>, <<"U">>}

ApiCall ==
    /\ pc = "api_idle"
    /\ \E a \in ApiAssets, f \in ApiFormats, t \in ApiTitles : Enter(a, f, t)
    /\ UNCHANGED <<storeVars, files, caller, mainVars, stdout, open_conns>>

\* export_annotations("b1", "csv", ...) called directly
CsvCall ==
    /\ pc = "api_idle"
    /\ Enter("b1", "csv", <<>>)
    /\ UNCHANGED <<storeVars, files, caller, mainVars, stdout, open_conns>>

ApiReturn ==
    /\ pc = "ex_return"
    /\ caller = "api"
    /\ pc' = "api_idle"
    /\ Leave
    /\ UNCHANGED <<storeVars, files, caller, mainVars, stdout, exc>>

ApiRaised ==
    /\ pc = "raised"
    /\ caller = "api"
    /\ pc' = "api_idle"
    /\ exc' = None
    /\ Leave
    /\ UNCHANGED <<storeVars, files, caller, mainVars, stdout>>

(***************************************************************************)
(* Specifications.                                                         *)
(***************************************************************************)
\* rows of the annotation store: a row whose text is NULL or empty is read by
\* no query, so its note is left NULL
Notes == {None, Some(<<"n">>)}

CatalogPool ==
    { [id |-> "b1", title |-> Some(<<"M">>), author |-> Some(<<"H">>)],
      [id |-> "b2", title |-> Some(<<>>), author |-> None],
      [id |-> "", title |-> None, author |-> Some(<<"A">>)] }

AnnotationPool ==
    [asset : {"b1", "b2", ""}, text : {None, Some(<<>>)}, note : {None}]
    \cup [asset : {"b1", "b2", ""}, text : {Some(<<"h">>)}, note : Notes]

InitLocals ==
    /\ files = <<>>
    /\ book_details = <<>>
    /\ books = <<>>
    /\ selected_book = None
    /\ selected_format = ""
    /\ main_choice = None
    /\ exported = None
    /\ stdout = ""
    /\ asset_id = ""
    /\ format = ""
    /\ book_title = <<>>
    /\ annotations = <<>>
    /\ filename = None
    /\ exc = None
    /\ open_conns = 0
    /\ io = <<>>

\* a run of main()
Init ==
    /\ variant \in Variants
    /\ library \in SUBSET CatalogPool
    /\ annotation \in SeqUpTo(AnnotationPool, MaxRows)
    /\ pc = "start"
    /\ caller = "main"
    /\ InitLocals

Next ==
    \/ main_get_library_books
    \/ main_get_library_books_with_highlights
    \/ SelectBook
    \/ SelectFormat
    \/ ExportChoice
    \/ Quit
    \/ ExValidate
    \/ ExRetrieve
    \/ ExWrite
    \/ Exported
    \/ ExportFailed

Spec == Init /\ [][Next]_vars

\* calls of export_annotations, one after the other
ApiPool ==
    [asset : ApiAssets, text : {Some(<<>>)}, note : {None}]
    \cup [asset : ApiAssets, text : {Some(<<"h">>)}, note : Notes]

InitApi ==
    /\ variant \in Variants
    /\ library = {}
    /\ annotation \in SeqUpTo(ApiPool, MaxRows)
    /\ pc = "api_idle"
    /\ caller = "api"
    /\ InitLocals

NextApi ==
    \/ ApiCall
    \/ ExValidate
    \/ ExRetrieve
    \/ ExWrite
    \/ ApiReturn
    \/ ApiRaised

SpecApi == InitApi /\ [][NextApi]_vars

\* calls of export_annotations in delimited-text format, over the texts a
\* highlight and a note can hold
Chars == {"a", "\n", ";", "\"", "\r"}

\* the rows of book b1 with a highlight of hl and a note of nl characters (the
\* note may also be NULL)
CsvRows(hl, nl) ==
    [asset : {"b1"},
     text : {Some(t) : t \in [1..hl -> Chars]},
     note : {Some(t) : t \in [1..nl -> Chars]} \cup (IF nl = 0 THEN {None} ELSE {})]

\* the shapes of the annotation stores of size k: the lengths <<hl, nl>> of the
\* highlight and of the note of each row
RECURSIVE CsvShapes(_)
CsvShapes(k) ==
    IF k = 0 THEN {<<>>}
    ELSE UNION {{<<c>> \o rest : rest \in CsvShapes(k - 1 - c[1] - c[2])} :
                  c \in {d \in (0..(k - 1)) \X (0..(k - 1)) : d[1] + d[2] <= k - 1}}

\* the annotation stores of a shape
RECURSIVE CsvStores(_)
CsvStores(shape) ==
    IF shape = <<>> THEN {<<>>}
    ELSE {<<r>> \o rest : r \in CsvRows(shape[1][1], shape[1][2]),
                          rest \in CsvStores(Tail(shape))}

InitCsv ==
    /\ variant \in Variants
    /\ library = {}
    /\ \E k \in 0..MaxStoreSize : \E shape \in CsvShapes(k) : annotation \in CsvStores(shape)
    /\ pc = "api_idle"
    /\ caller = "api"
    /\ InitLocals

NextCsv ==
    \/ CsvCall
    \/ ExValidate
    \/ ExRetrieve
    \/ ExWrite
    \/ ApiReturn
    \/ ApiRaised

SpecCsv == InitCsv /\ [][NextCsv]_vars

(***************************************************************************)
(* Reading a delimited-text file back: csv.reader with delimiter ";" on a  *)
(* file opened with newline='' (the reader is fed line by line; a line     *)
(* ends after "\n", or after a "\r" that no "\n" follows).                 *)
(***************************************************************************)
CsvStep(p, c) ==
    LET eol == c = "EOL"
        nl == c \in {"\n", "\r"}
        To(q, st) == [q EXCEPT !.st = st]
        Save(q) == [q EXCEPT !.rec = Append(q.rec, q.field), !.field = <<>>]
        Add(q) == [q EXCEPT !.field = Append(q.field, c)]
        EndField(q) == To(Save(q), IF eol THEN "START_RECORD" ELSE "EAT_CRNL")
        StartField(q) ==
            IF nl \/ eol THEN EndField(q)
            ELSE IF c = "\"" THEN To(q, "IN_QUOTED_FIELD")
            ELSE IF c = ";" THEN To(Save(q), "START_FIELD")
            ELSE To(Add(q), "IN_FIELD")
        r == CASE p.st = "START_RECORD" ->
                    IF eol THEN p ELSE IF nl THEN To(p, "EAT_CRNL") ELSE StartField(p)
               [] p.st = "START_FIELD" -> StartField(p)
               [] p.st = "IN_FIELD" ->
                    IF nl \/ eol THEN EndField(p)
                    ELSE IF c = ";" THEN To(Save(p), "START_FIELD")
                    ELSE Add(p)
               [] p.st = "IN_QUOTED_FIELD" ->
                    IF eol THEN p
                    ELSE IF c = "\"" THEN To(p, "QUOTE_IN_QUOTED_FIELD")
                    ELSE Add(p)
               [] p.st = "QUOTE_IN_QUOTED_FIELD" ->
                    IF c = "\"" THEN To(Add(p), "IN_QUOTED_FIELD")
                    ELSE IF c = ";" THEN To(Save(p), "START_FIELD")
                    ELSE IF nl \/ eol THEN EndField(p)
                    ELSE To(Add(p), "IN_FIELD")
               [] p.st = "EAT_CRNL" ->
                    IF eol THEN To(p, "START_RECORD")
                    ELSE IF nl THEN p
                    ELSE To(p, "ERROR")
               [] OTHER -> p
    IN  IF eol /\ r.st = "START_RECORD"
        THEN [r EXCEPT !.out = Append(r.out, r.rec), !.rec = <<>>]
        ELSE r

\* what reading gives when the reader raises csv.Error
CsvError == <<"csv.Error">>

RECURSIVE CsvScan(_, _, _)
CsvScan(s, i, p) ==
    IF p.st = "ERROR" THEN CsvError
    ELSE IF i > Len(s)
    THEN IF p.st = "START_RECORD" THEN p.out ELSE Append(p.out, Append(p.rec, p.field))
    ELSE LET c == s[i]
             lineEnd == \/ c = "\n"
                        \/ c = "\r" /\ (i = Len(s) \/ s[i + 1] # "\n")
                        \/ i = Len(s)
             q == CsvStep(p, c)
         IN  CsvScan(s, i + 1, IF lineEnd THEN CsvStep(q, "EOL") ELSE q)

\* the records of the file, each a sequence of fields
ParseCsv(s) ==
    CsvScan(s, 1, [st |-> "START_RECORD", field |-> <<>>, rec |-> <<>>, out |-> <<>>])

(***************************************************************************)
(* The states of the selection workflow.  The loop treats a book as        *)
(* selected when selected_book is neither None nor the empty identifier:   *)
(* that is what the menu shows and what Export Annotations tests.          *)
(***************************************************************************)
NoBookSelected == selected_book = None \/ selected_book = Some("")
BookSelected == ~NoBookSelected
InExport == pc \in {"ex_validate", "ex_retrieve", "ex_write", "ex_return", "raised"}

(***************************************************************************)
(* C1.  Export Annotations calls export_annotations only when a book is    *)
(* selected: chosen in NoBookSelected it calls nothing, writes no file and *)
(* leaves the loop in NoBookSelected.                                      *)
(***************************************************************************)
C1_ExportOnlyWithBook ==
    [][ /\ (pc = "loop" /\ InExport') => BookSelected
        /\ (pc = "loop" /\ NoBookSelected /\ main_choice' = Some(2)) =>
              /\ pc' = "loop"
              /\ NoBookSelected'
              /\ files' = files
              /\ io' = io
              /\ open_conns' = open_conns ]_vars

C1_Witness ==
    /\ pc = "loop"
    /\ NoBookSelected
    /\ main_choice = Some(2)
    /\ books # <<>>
    /\ stdout \in {"Please select a book before exporting!",
                   "Please select a book and format before exporting!"}

(***************************************************************************)
(* C2.  A failure of export_annotations does not end the process: it is    *)
(* reported, the loop goes on in BookSelected with the same book and       *)
(* format, and only a successful export ends the loop in Exported.         *)
(***************************************************************************)
C2_ExportFailureIsRetryable ==
    [][ /\ (pc = "raised" /\ caller = "main") =>
              /\ pc' = "loop"
              /\ stdout' = "Error exporting annotations"
              /\ BookSelected'
              /\ selected_book' = selected_book
              /\ selected_format' = selected_format
        /\ (InExport /\ caller = "main" /\ pc' = "exit") =>
              pc = "ex_return" /\ exported' # None ]_vars

(***************************************************************************)
(* C3.  An unsupported format is rejected before any I/O: when the         *)
(* ValueError is raised no connection has been opened, no query issued and *)
(* no output file created or truncated.                                    *)
(***************************************************************************)
C3_InvalidFormatBeforeIO ==
    (pc = "raised" /\ exc = Some("ValueError")) => (io = <<>> /\ open_conns = 0)

(***************************************************************************)
(* C4.  At every component boundary (after the Catalog Reader, after the   *)
(* Reconciler, after the Retriever and before the Exporter, in the loop,   *)
(* at the end) no store connection is open.                                *)
(***************************************************************************)
AtComponentBoundary ==
    \/ pc \in {"reconcile", "loop", "exit", "api_idle"}
    \/ pc = AfterRetrieve(variant) /\ \E i \in DOMAIN io : io[i].op = "execute"

C4_ConnectionsReleased == AtComponentBoundary => open_conns = 0

(***************************************************************************)
(* C5.  Once a book is selected the loop never returns to NoBookSelected:  *)
(* selecting again replaces the book by the new choice, every other choice *)
(* and a failed export leave it unchanged.                                 *)
(***************************************************************************)
C5_SelectionIsSticky ==
    [][ /\ BookSelected => BookSelected'
        /\ (pc = "loop" /\ selected_book' # selected_book) =>
              main_choice' = Some(0) /\ selected_book'[1] \in Range(books)
        /\ pc # "loop" => selected_book' = selected_book ]_vars

(***************************************************************************)
(* C6.  The loop starts with the markdown format selected, choosing a      *)
(* format leaves the selected book alone, and the selected format is       *)
(* always one that export accepts.                                         *)
(***************************************************************************)
MarkdownFormats == {"md", "markdown"}

C6_FormatDefaultsToMarkdown ==
    [][ /\ (pc = "reconcile" /\ pc' = "loop") => selected_format' \in MarkdownFormats
        /\ (pc = "loop" /\ main_choice' = Some(1)) =>
              pc' = "loop" /\ selected_book' = selected_book
        /\ pc' = "loop" =>
              Lower(selected_format') \in Range(SUPPORTED_FORMATS(variant)) ]_vars

(***************************************************************************)
(* C7.  Every identifier the Reconciler returns is a key of the            *)
(* CatalogIndex and has an annotation row with non-empty highlighted text, *)
(* and no identifier is returned twice.                                    *)
(***************************************************************************)
HasHighlight(id) ==
    \E j \in DOMAIN annotation :
        /\ annotation[j].asset = id
        /\ annotation[j].text # None
        /\ Len(annotation[j].text[1]) > 0

C7_ReconcilerSound ==
    /\ \A i \in DOMAIN books :
          /\ books[i] \in DOMAIN book_details
          /\ books[i] \in {r.id : r \in library}
          /\ HasHighlight(books[i])
    /\ \A i, j \in DOMAIN books : books[i] = books[j] => i = j

\* one book returned; another book of the catalog, whose only annotation row
\* has no text, left out
C7_Witness ==
    /\ pc = "loop"
    /\ Len(books) = 1
    /\ Cardinality(DOMAIN book_details) = 3
    /\ \E id \in DOMAIN book_details :
          /\ id \notin Range(books)
          /\ \E j \in DOMAIN annotation : annotation[j].asset = id

(***************************************************************************)
(* C8.  With an empty catalog the Reconciler returns the empty sequence    *)
(* without querying the annotation store with an empty IN () list.         *)
(***************************************************************************)
C8_EmptyCatalogShortCircuits ==
    /\ (pc = "loop" /\ library = {}) => books = <<>>
    /\ \A i \in DOMAIN io :
          ~(io[i].op = "execute" /\ io[i].target = "annotation" /\ io[i].params = 0)

(***************************************************************************)
(* C9.  A delimited-text export writes the header record Highlight;Notes   *)
(* and one record per annotation, in order; read back, each record holds   *)
(* the highlight and the note with every newline replaced by one space,    *)
(* the note field being empty when the note is absent.                     *)
(***************************************************************************)
HeaderLine ==
    <<"H","i","g","h","l","i","g","h","t",";","N","o","t","e","s","\r","\n">>

RECURSIVE Collapsed(_)
Collapsed(t) ==
    IF t = <<>> THEN <<>>
    ELSE <<IF Head(t) = "\n" THEN " " ELSE Head(t)>> \o Collapsed(Tail(t))

C9_CsvRoundTrip ==
    (pc = "ex_return" /\ Lower(format) = "csv") =>
        LET f == files["highlights.csv"]
            recs == ParseCsv(f)
        IN  /\ SubSeq(f, 1, Len(HeaderLine)) = HeaderLine
            /\ Len(recs) = Len(annotations) + 1
            /\ recs[1] = << <<"H","i","g","h","l","i","g","h","t">>,
                            <<"N","o","t","e","s">> >>
            /\ \A i \in DOMAIN annotations :
                  recs[i + 1] =
                     << Collapsed(annotations[i].highlight),
                        IF annotations[i].note = None THEN <<>>
                        ELSE Collapsed(annotations[i].note[1]) >>

\* two annotations: newlines in a highlight and in a note, a quote character
\* and an absent note
C9_Witness ==
    /\ pc = "ex_return"
    /\ Lower(format) = "csv"
    /\ Len(annotations) = 2
    /\ annotations[1].highlight = <<"\n">>
    /\ annotations[1].note = Some(<<"\n">>)
    /\ annotations[2].highlight = <<"\"">>
    /\ annotations[2].note = None
    /\ "highlights.csv" \in DOMAIN files

(***************************************************************************)
(* C10.  The name of the output file follows from the format alone         *)
(* (highlights.csv or highlights.md); a successful export leaves in that   *)
(* file the serialization of the book just exported and nothing else, and  *)
(* leaves every other file as it was.                                      *)
(***************************************************************************)
C10_FilenameByFormatOnly ==
    [][ (pc = "ex_write" /\ pc' = "ex_return") =>
          LET name == IF Lower(format) = "csv" THEN "highlights.csv"
                      ELSE "highlights.md"
          IN  /\ filename' = Some(name)
              /\ DOMAIN files' = DOMAIN files \cup {name}
              /\ files'[name] = Content(variant, format, book_title,
                                    SelectAnnotations(annotation, asset_id))
              /\ \A n \in DOMAIN files \ {name} : files'[n] = files[n] ]_vars

C10_Witness ==
    /\ pc = "ex_return"
    /\ asset_id = "b2"
    /\ Lower(format) = "csv"
    /\ DOMAIN files = {"highlights.csv", "highlights.md"}
    /\ SelectAnnotations(annotation, "b1") # <<>>
    /\ SelectAnnotations(annotation, "b2") # <<>>
    /\ SelectAnnotations(annotation, "b1") # SelectAnnotations(annotation, "b2")
    /\ files["highlights.csv"] = CsvFile(SelectAnnotations(annotation, "b2"))
    /\ \E t \in ApiTitles :
          files["highlights.md"] = MdFile(variant, t, SelectAnnotations(annotation, "b1"))

====
